---- MODULE Spec2Model ----
(***************************************************************************)
(* Model of src/bindings/web/rune/src/Tensor.ts: a Tensor holds a Shape    *)
(* (element kind + dimensions) and a Uint8Array `elements`; asTypedArray   *)
(* reinterprets the bytes of `elements` as a typed array of the declared   *)
(* kind.  The JavaScript objects the code touches are modelled with their  *)
(* identity: ArrayBuffers live in `buffers`, number[] arrays in `arrays`,  *)
(* and a Uint8Array / typed array / Shape holds a reference into them.     *)
(***************************************************************************)
EXTENDS Integers, Sequences, FiniteSets, TLC

\* ---------------------------------------------------------------- bounds
MaxOffset == 2      \* largest byteOffset of `elements` into its ArrayBuffer
MaxBytes  == 9      \* largest byteLength of `elements`
TailBytes == 1      \* bytes of the ArrayBuffer that follow `elements`
MaxWrites == 2      \* writes a caller performs in one behaviour
MaxRank   == 3      \* largest length of a dimensions array

\* ------------------------------------------------------- tables of the code
ElementKinds == {"f64", "i64", "u64", "f32", "i32", "u32", "u16", "i16", "u8", "i8"}

\* Tensor.ts 3-14: element kind -> typed array constructor
typedArrays ==
    [f64 |-> "Float64Array",  i64 |-> "BigInt64Array", u64 |-> "BigUint64Array",
     f32 |-> "Float32Array",  i32 |-> "Int32Array",    u32 |-> "Uint32Array",
     u16 |-> "Uint16Array",   i16 |-> "Int16Array",
     u8  |-> "Uint8ClampedArray", i8 |-> "Int8Array"]

\* <constructor>.BYTES_PER_ELEMENT of the constructors named in typedArrays
BYTES_PER_ELEMENT ==
    [Float64Array |-> 8, BigInt64Array |-> 8, BigUint64Array |-> 8,
     Float32Array |-> 4, Int32Array |-> 4, Uint32Array |-> 4,
     Uint16Array |-> 2, Int16Array |-> 2,
     Uint8ClampedArray |-> 1, Int8Array |-> 1]

\* Shape.ByteSize (Shape.ts is not among the sources): byte width of each kind
ByteSize ==
    [f64 |-> 8, f32 |-> 4, i64 |-> 8, i32 |-> 4, i16 |-> 2, i8 |-> 1,
     u64 |-> 8, u32 |-> 4, u16 |-> 2, u8 |-> 1]

FloatCtors    == {"Float64Array", "Float32Array"}
SignedCtors   == {"BigInt64Array", "Int32Array", "Int16Array", "Int8Array"}

VARIABLES
    buffers,       \* heap of ArrayBuffers: buffers[id] is a sequence of bytes
    arrays,        \* heap of number[] arrays: arrays[id] is a sequence
    shape,         \* this.shape:    [type, dimensions (a reference into arrays)]
    elements,      \* this.elements: [buffer (a reference), byteOffset, byteLength]
    littleEndian,  \* byte order of the platform the typed arrays run on
    last,          \* the last operation: [op, kind, index, number, threw, value, error]
    view,          \* the typed array the caller got from asTypedArray, or None
    dimsRef,       \* the array the caller got from `dimensions`, or 0
    dims0,         \* the dimension sizes the Shape was constructed with
    writes         \* number of writes performed so far

vars == <<buffers, arrays, shape, elements, littleEndian, last, view, dimsRef, dims0, writes>>

None == [ctor |-> "none", buffer |-> 0, byteOffset |-> 0, length |-> 0]

NoError == [name |-> "", message |-> <<>>]

\* a call that returns v / a call that throws e
Return(v) == [threw |-> FALSE, value |-> v, error |-> NoError]
Throw(e)  == [threw |-> TRUE,  value |-> None, error |-> e]

\* The record of an operation.  kind: the kind asTypedArray was asked for, or
\* the kind elementType returned.  index, number: the index and value of a
\* write; number is also the array reference `dimensions` returned.  threw,
\* value, error: the outcome of asTypedArray (value is the typed array).
Did(op, kind, index, number, r) ==
    [op |-> op, kind |-> kind, index |-> index, number |-> number,
     threw |-> r.threw, value |-> r.value, error |-> r.error]

\* ------------------------------------------------- JavaScript number helpers
\* a / b on JS Numbers is exact (not integer) division: kept as a fraction
Quotient(a, b) == [num |-> a, den |-> b]

\* ToIndex(x) of the typed array constructor: truncation toward zero (x >= 0)
ToIndex(x) == x.num \div x.den

\* ------------------------------------------------ element <-> bytes (platform)
RECURSIVE IntToBytes(_, _)
\* the w low bytes of integer v in two's complement, least significant first
IntToBytes(v, w) ==
    IF w = 0 THEN <<>> ELSE <<v % 256>> \o IntToBytes(v \div 256, w - 1)

RECURSIVE BytesToInt(_, _)
\* the integer held by bytes (least significant first); the top byte carries the sign
BytesToInt(bytes, signed) ==
    IF Len(bytes) = 1
    THEN IF signed /\ bytes[1] >= 128 THEN bytes[1] - 256 ELSE bytes[1]
    ELSE bytes[1] + 256 * BytesToInt(Tail(bytes), signed)

Reverse(s) == [j \in 1..Len(s) |-> s[Len(s) + 1 - j]]

Zeros(n) == [j \in 1..n |-> 0]

\* The IEEE-754 values 0.0, 1.0 and -2.0 (written 0, 1, -2), with the two most
\* significant bytes of their binary32 / binary64 encodings (the remaining
\* bytes are zero).  Every other bit pattern reads as "some other float", 3.
FloatValues == {0, 1, -2}
FloatTop(ctor, v) ==
    IF v = 0 THEN <<0, 0>>
    ELSE IF v = -2 THEN <<0, 192>>
    ELSE IF ctor = "Float32Array" THEN <<128, 63>> ELSE <<240, 63>>

\* Uint8ClampedArray stores ToUint8Clamp(v)
ToUint8Clamp(v) == IF v < 0 THEN 0 ELSE IF v > 255 THEN 255 ELSE v

\* the bytes element value v occupies in memory, in address order
Encode(ctor, v) ==
    LET w  == BYTES_PER_ELEMENT[ctor]
        le == IF ctor \in FloatCtors THEN Zeros(w - 2) \o FloatTop(ctor, v)
              ELSE IF ctor = "Uint8ClampedArray" THEN <<ToUint8Clamp(v)>>
              ELSE IntToBytes(v, w)
    IN  IF littleEndian THEN le ELSE Reverse(le)

\* the element value held by w bytes of memory
Decode(ctor, bytes) ==
    LET le == IF littleEndian THEN bytes ELSE Reverse(bytes)
    IN  IF ctor \in FloatCtors
        THEN IF \E v \in FloatValues :
                    le = Zeros(BYTES_PER_ELEMENT[ctor] - 2) \o FloatTop(ctor, v)
             THEN CHOOSE v \in FloatValues :
                    le = Zeros(BYTES_PER_ELEMENT[ctor] - 2) \o FloatTop(ctor, v)
             ELSE 3
        ELSE BytesToInt(le, ctor \in SignedCtors)

\* buf with the bytes at offsets at .. at + Len(bytes) - 1 replaced (offsets from 0)
SetBytes(buf, at, bytes) ==
    [j \in 1..Len(buf) |->
        IF j - 1 >= at /\ j - 1 < at + Len(bytes) THEN bytes[j - at] ELSE buf[j]]

\* the bytes of buf at offsets at .. at + n - 1
GetBytes(buf, at, n) == [j \in 1..n |-> buf[at + j]]

\* typed array element access: ta[i]
GetElement(ta, i) ==
    LET w == BYTES_PER_ELEMENT[ta.ctor]
    IN  Decode(ta.ctor, GetBytes(buffers[ta.buffer], ta.byteOffset + i * w, w))

\* Uint8Array element access: u8[j]
GetByte(u8, j) == buffers[u8.buffer][u8.byteOffset + j + 1]

\* ------------------------------------------------------------- the Shape
\* Shape.toString() (Shape.ts is not among the sources): the description of a
\* shape names its element kind and its dimension sizes
ShapeToString(s) == <<s.type, arrays[s.dimensions]>>

\* The arrays the Shape constructor froze with Object.freeze (Shape.ts is not
\* among the sources; the spec declares only the kind tag immutable): none
FrozenArrays == {}

\* ------------------------------------------- new TypedArray(buffer, o, n)
\* The typed array constructor called with an ArrayBuffer: a view of that
\* buffer (no allocation, no copy).  It throws a RangeError when the offset is
\* not a multiple of the element size or the view would pass the buffer's end.
NewTypedArray(ctor, buffer, byteOffset, length) ==
    LET elementSize == BYTES_PER_ELEMENT[ctor]
        newLength   == ToIndex(length)
    IN  IF byteOffset % elementSize # 0
        THEN Throw([name |-> "RangeError",
                    message |-> <<"start offset of ", ctor,
                                  " should be a multiple of ", elementSize>>])
        ELSE IF byteOffset + newLength * elementSize > Len(buffers[buffer])
        THEN Throw([name |-> "RangeError",
                    message |-> <<"Invalid typed array length: ", newLength>>])
        ELSE Return([ctor |-> ctor, buffer |-> buffer,
                     byteOffset |-> byteOffset, length |-> newLength])

\* ---------------------------------------------------- Tensor.asTypedArray
\* mutant of KindMismatch: a byte-compatibility check instead of a declared-kind check
KindMismatchByWidth(declared, requested) == ByteSize[declared] # ByteSize[requested]

\* line 37: this.shape.type != elementType
KindMismatch(declared, requested) == declared # requested

\* mutant of MismatchMessage: the declared kind interpolated in both places
MismatchMessageDeclaredTwice(sh, elementType) ==
    <<"Attempting to interpret a ", ShapeToString(sh), " as a ", sh.type, " tensor">>

\* line 38: the message of the Error thrown on a mismatch
MismatchMessage(sh, elementType) ==
    <<"Attempting to interpret a ", ShapeToString(sh), " as a ", elementType, " tensor">>

\* mutant of ElementCount: the byte length passed as the element count
ElementCountInBytes(byteLength, kind) == Quotient(byteLength, 1)

\* line 42: byteLength / Shape.ByteSize[this.shape.type]
ElementCount(byteLength, kind) == Quotient(byteLength, ByteSize[kind])

\* mutant of ViewOf: byteOffset not passed on (the view starts at the buffer's start)
ViewOfBufferStart(els, kind, elementType) ==
    NewTypedArray(typedArrays[elementType], els.buffer, 0,
                  ElementCount(els.byteLength, kind))

\* lines 41-45: the typed array built over this.elements
ViewOf(els, kind, elementType) ==
    NewTypedArray(typedArrays[elementType], els.buffer, els.byteOffset,
                  ElementCount(els.byteLength, kind))

\* lines 36-46
asTypedArray(elementType) ==
    IF KindMismatch(shape.type, elementType)
    THEN Throw([name |-> "Error", message |-> MismatchMessage(shape, elementType)])
    ELSE ViewOf(elements, shape.type, elementType)

\* ----------------------------------------------------------------- Init
\* The state after `new Tensor(shape, elements)` (lines 20-23): the shape and
\* the byte view are stored by reference.  `elements` views part of an
\* ArrayBuffer the caller filled (byte j holds j + 1).
TestDimensions == {<<>>, <<2, 3>>}

Init ==
    /\ \E kind \in ElementKinds, dims \in TestDimensions :
          /\ arrays = <<dims>>
          /\ dims0 = dims
          /\ shape = [type |-> kind, dimensions |-> 1]
    /\ \E o \in 0..MaxOffset, n \in 0..MaxBytes :
          /\ buffers = <<[j \in 1..(o + n + TailBytes) |-> j]>>
          /\ elements = [buffer |-> 1, byteOffset |-> o, byteLength |-> n]
    /\ littleEndian \in BOOLEAN
    /\ last = Did("construct", "", 0, 0, Return(None))
    /\ view = None
    /\ dimsRef = 0
    /\ writes = 0

\* -------------------------------------------------------------- actions
\* mutant of AsTypedArrayCall: the call also narrows this.elements to the bytes
\* the typed array covers
AsTypedArrayCallNarrowing(elementType) ==
    LET r == asTypedArray(elementType)
    IN  /\ last' = Did("asTypedArray", elementType, 0, 0, r)
        /\ view' = IF r.threw THEN view ELSE r.value
        /\ elements' = IF r.threw THEN elements
                       ELSE [elements EXCEPT !.byteLength =
                                r.value.length * BYTES_PER_ELEMENT[r.value.ctor]]
        /\ UNCHANGED <<buffers, arrays, shape, littleEndian, dimsRef, dims0, writes>>

\* t.asTypedArray(elementType), lines 36-46
AsTypedArrayCall(elementType) ==
    LET r == asTypedArray(elementType)
    IN  /\ last' = Did("asTypedArray", elementType, 0, 0, r)
        /\ view' = IF r.threw THEN view ELSE r.value
        /\ UNCHANGED <<buffers, arrays, shape, elements, littleEndian, dimsRef, dims0, writes>>

\* t.elementType, lines 48-50
ElementTypeGet ==
    /\ last' = Did("elementType", shape.type, 0, 0, Return(None))
    /\ UNCHANGED <<buffers, arrays, shape, elements, littleEndian, view, dimsRef, dims0, writes>>

\* t.dimensions, lines 52-54: returns the shape's own array (a reference)
DimensionsGet ==
    /\ last' = Did("dimensions", "", 0, shape.dimensions, Return(None))
    /\ dimsRef' = shape.dimensions
    /\ UNCHANGED <<buffers, arrays, shape, elements, littleEndian, view, dims0, writes>>

\* The caller appends a size to the array `dimensions` returned.  `readonly
\* number[]` is a compile-time type only: at run time the value is an
\* ordinary array, which a JavaScript caller or a cast can change.
PushToReturnedDimensions(size) ==
    /\ dimsRef # 0
    /\ dimsRef \notin FrozenArrays
    /\ Len(arrays[dimsRef]) < MaxRank
    /\ arrays' = [arrays EXCEPT ![dimsRef] = Append(@, size)]
    /\ last' = Did("push", "", 0, size, Return(None))
    /\ UNCHANGED <<buffers, shape, elements, littleEndian, view, dimsRef, dims0, writes>>

\* values of each kind the caller writes
TestValues(ctor) ==
    IF ctor \in FloatCtors \cup SignedCtors THEN {1, -2}
    ELSE IF ctor \in {"Uint8ClampedArray"} THEN {1, 255}
    ELSE {1, 65535}

\* ta[i] = v on the typed array asTypedArray returned
SetViewElement(i, v) ==
    /\ view # None
    /\ writes < MaxWrites
    /\ i < view.length
    /\ v \in TestValues(view.ctor)
    /\ buffers' = [buffers EXCEPT ![view.buffer] =
                      SetBytes(@, view.byteOffset + i * BYTES_PER_ELEMENT[view.ctor],
                               Encode(view.ctor, v))]
    /\ last' = Did("setView", "", i, v, Return(None))
    /\ writes' = writes + 1
    /\ UNCHANGED <<arrays, shape, elements, littleEndian, view, dimsRef, dims0>>

\* t.elements[j] = b
SetElementsByte(j, b) ==
    /\ writes < MaxWrites
    /\ j < elements.byteLength
    /\ buffers' = [buffers EXCEPT ![elements.buffer] =
                      SetBytes(@, elements.byteOffset + j, <<b>>)]
    /\ last' = Did("setElements", "", j, b, Return(None))
    /\ writes' = writes + 1
    /\ UNCHANGED <<arrays, shape, elements, littleEndian, view, dimsRef, dims0>>

\* The calls a caller can make on a Tensor, and what it can do with the array
\* `dimensions` returned.
Next ==
    \/ \E k \in ElementKinds : AsTypedArrayCall(k)
    \/ ElementTypeGet
    \/ DimensionsGet
    \/ \E size \in {1} : PushToReturnedDimensions(size)

Spec == Init /\ [][Next]_vars

\* The caller reinterprets the bytes (as the declared kind, or as i32 or u8)
\* and writes through the typed array it got and through `elements`.
InitAlias == Init /\ dims0 = <<2, 3>>

NextAlias ==
    \/ \E k \in {shape.type, "i32", "u8"} : AsTypedArrayCall(k)
    \/ \E i \in 0..(MaxBytes - 1), v \in {1, -2, 255, 65535} : SetViewElement(i, v)
    \/ \E j \in 0..(MaxBytes - 1), b \in {255} : SetElementsByte(j, b)

SpecAlias == InitAlias /\ [][NextAlias]_vars

\* ======================================================================
\* Claims
\* ======================================================================
Called(op) == last.op = op
Matching   == Called("asTypedArray") /\ last.kind = shape.type
Width      == ByteSize[shape.type]

\* C1: asTypedArray(k2) on a Tensor whose shape declares k1 # k2 always throws
\* the mismatch error and returns no typed array, whatever the bytes and
\* whether or not the two kinds have the same byte width.
C1_MismatchAlwaysFails ==
    (Called("asTypedArray") /\ last.kind # shape.type) =>
        /\ last.threw
        /\ last.value = None
        /\ last.error.name = "Error"
        /\ last.error.message[1] = "Attempting to interpret a "

C1_Witness ==
    /\ Called("asTypedArray") /\ shape.type = "i64" /\ last.kind = "f64"
    /\ last.threw /\ elements.byteLength = 8 /\ elements.byteOffset = 0

\* C2: the kind mismatch is the only error: asTypedArray(k) on a Tensor whose
\* shape declares k never throws, for any byteOffset and byteLength of
\* `elements`; the accessors never throw.
C2_OnlyMismatchFails ==
    /\ Matching => ~last.threw
    /\ (Called("elementType") \/ Called("dimensions")) => ~last.threw

\* C3: when byteLength is an exact multiple of the kind's width, asTypedArray
\* of the declared kind returns byteLength / width elements of that width.
C3_ExactLength ==
    (Matching /\ elements.byteLength % Width = 0) =>
        /\ ~last.threw
        /\ last.value.length * Width = elements.byteLength
        /\ BYTES_PER_ELEMENT[last.value.ctor] = Width

\* C5: over a zero-length `elements` (at any byteOffset) asTypedArray of the
\* declared kind returns a zero-length typed array and never throws.
C5_ZeroLength ==
    (Matching /\ elements.byteLength = 0) =>
        /\ ~last.threw
        /\ last.value.length = 0

\* C6: when byteLength is not a multiple of the kind's width, asTypedArray of
\* the declared kind does not reject the bytes: it returns
\* floor(byteLength / width) elements.
C6_Truncates ==
    (Matching /\ elements.byteLength % Width # 0) =>
        /\ ~last.threw
        /\ last.value.length = elements.byteLength \div Width

\* C7: a call of asTypedArray, elementType or dimensions leaves the Tensor's
\* shape and elements, the shape's dimension sizes and the bytes unchanged;
\* elementType returns the declared kind and dimensions the shape's sizes.
C7_CallsChangeNothing ==
    [][last'.op \in {"asTypedArray", "elementType", "dimensions"} =>
          /\ shape' = shape /\ elements' = elements
          /\ buffers' = buffers /\ arrays' = arrays
          /\ (last'.op = "elementType" => last'.kind = shape.type)
          /\ (last'.op = "dimensions" => arrays'[last'.number] = arrays[shape.dimensions])]_vars

C7_Witness ==
    /\ Called("elementType") /\ last.kind = "f32"
    /\ view # None /\ view.length = 2 /\ dimsRef # 0

\* C8: nothing a caller does with the value `dimensions` returned changes the
\* shape's dimension sizes: a later call of `dimensions` returns the sizes the
\* shape was constructed with.
C8_DimensionsReadOnly ==
    Called("dimensions") => arrays[last.number] = dims0

\* C9: the error thrown on a kind mismatch carries the message "Attempting to
\* interpret a <shape-description> as a <requested-kind> tensor", which names
\* the shape's declared kind and the requested kind.
C9_MismatchMessage ==
    (Called("asTypedArray") /\ last.threw /\ last.kind # shape.type) =>
        /\ last.error.name = "Error"
        /\ Len(last.error.message) = 5
        /\ last.error.message[1] = "Attempting to interpret a "
        /\ last.error.message[2] = ShapeToString(shape)
        /\ last.error.message[2][1] = shape.type
        /\ last.error.message[3] = " as a "
        /\ last.error.message[4] = last.kind
        /\ last.error.message[5] = " tensor"

C9_Witness ==
    /\ Called("asTypedArray") /\ last.threw
    /\ shape.type = "f32" /\ dims0 = <<2, 3>> /\ last.kind = "i32"
    /\ last.error.message[2] = <<"f32", <<2, 3>>>>

\* C4: the typed array asTypedArray returned shares the bytes of `elements`:
\* a value written at index i reads back at index i and is seen, as its bytes,
\* at elements[i * width ...]; a byte written to `elements` is seen in the
\* element of the typed array that covers it.
C4_Aliasing ==
    /\ Called("setView") =>
          LET w == BYTES_PER_ELEMENT[view.ctor]
          IN  /\ GetElement(view, last.index) = last.number
              /\ \A n \in 0..(w - 1) :
                    GetByte(elements, last.index * w + n) = Encode(view.ctor, last.number)[n + 1]
    /\ (Called("setElements") /\ view # None) =>
          LET w == BYTES_PER_ELEMENT[view.ctor]
              i == last.index \div w
          IN  /\ view.buffer = elements.buffer
              /\ i < view.length =>
                    GetBytes(buffers[view.buffer], view.byteOffset + i * w, w)[(last.index % w) + 1]
                        = last.number

C4_Witness ==
    /\ Called("setView") /\ writes = 2
    /\ view.ctor = "Int16Array" /\ elements.byteOffset = 2
    /\ last.index = 1 /\ last.number = -2
    /\ GetByte(elements, 2) + GetByte(elements, 3) = 509

\* C10: the typed array asTypedArray returned starts at the byteOffset of
\* `elements` in the same ArrayBuffer and spans at most elements.byteLength
\* bytes; a write through it changes no byte outside
\* [byteOffset, byteOffset + byteLength) of `elements`.
C10_StaysInsideElements ==
    [][/\ (last'.op = "asTypedArray" /\ ~last'.threw) =>
             /\ last'.value.buffer = elements.buffer
             /\ last'.value.byteOffset = elements.byteOffset
             /\ last'.value.length * BYTES_PER_ELEMENT[last'.value.ctor] <= elements.byteLength
       /\ (last'.op = "setView") =>
             \A j \in 1..Len(buffers[elements.buffer]) :
                (j - 1 < elements.byteOffset \/ j - 1 >= elements.byteOffset + elements.byteLength)
                    => buffers'[elements.buffer][j] = buffers[elements.buffer][j]]_vars

C10_Witness ==
    /\ Called("setView") /\ view.ctor = "Int16Array"
    /\ elements.byteOffset = 2 /\ elements.byteLength = 5 /\ last.index = 1

====
